---- MODULE Spec2Model ----
(***************************************************************************)
(* Model of the trading-signal engine of x402-market-analysis              *)
(* (generateTradingSignals and the technical-analysis functions it calls). *)
(*                                                                         *)
(* Numbers.  JavaScript numbers are modelled as rationals <<n, d>> in      *)
(* lowest terms with d > 0; d = 0 stands for a non-finite value (NaN,      *)
(* Infinity).  Sums, means, RSI, SMA, the volume trend and the confidence  *)
(* are computed exactly.  The three EMA recurrences and the mean of the    *)
(* daily returns are rounded after each step to a fixed grid (Resolution,  *)
(* ReturnResolution), as a double rounds after each operation, only at a   *)
(* coarser grain, so that every intermediate fits a machine integer.       *)
(* Overflow of doubles to Infinity (prices near 1e308) is not modelled.    *)
(***************************************************************************)
EXTENDS Integers, Sequences, FiniteSets, TLC

VARIABLES upstream, pc, symbol, priceHistory, callPrices, callVolumes, report, error,
          network, request, stage, response, handled, lookup

\* the state of the HTTP service around the engine
httpVars == <<network, request, stage, response, handled, lookup>>

vars == <<upstream, pc, symbol, priceHistory, callPrices, callVolumes, report, error,
          network, request, stage, response, handled, lookup>>

(***************************************************************************)
(* Bounds of the model.                                                    *)
(***************************************************************************)
MaxLen == 16
LongLen == 60
MaxClock == 1

Resolution == 10^5
ReturnResolution == 10^3

(***************************************************************************)
(* Arithmetic on JavaScript numbers.                                       *)
(***************************************************************************)
Abs(x) == IF x < 0 THEN -x ELSE x

Max(a, b) == IF a > b THEN a ELSE b

Min(a, b) == IF a < b THEN a ELSE b

RECURSIVE GCD(_, _)
GCD(a, b) == IF b = 0 THEN a ELSE GCD(b, a % b)

\* n / d in lowest terms, d > 0
Norm(n, d) == IF d = 1 THEN <<n, 1>> ELSE LET g == GCD(Abs(n), d) IN <<n \div g, d \div g>>

Num(i) == <<i, 1>>

NaN == <<0, 0>>

Infinity == <<1, 0>>

NegInfinity == <<-1, 0>>

IsFinite(x) == x[2] # 0

IsInteger(x) == x[2] = 1

Neg(x) == <<-x[1], x[2]>>

Add(x, y) ==
    IF IsFinite(x) /\ IsFinite(y)
    THEN IF x[2] = y[2] THEN Norm(x[1] + y[1], x[2])
         ELSE LET g == GCD(x[2], y[2])
              IN  Norm(x[1] * (y[2] \div g) + y[1] * (x[2] \div g), (x[2] \div g) * y[2])
    ELSE IF x = NaN \/ y = NaN \/ (~IsFinite(x) /\ ~IsFinite(y) /\ x # y) THEN NaN
    ELSE IF IsFinite(x) THEN y ELSE x

Sub(x, y) == Add(x, Neg(y))

Sign(i) == IF i > 0 THEN 1 ELSE IF i < 0 THEN -1 ELSE 0

Mul(x, y) ==
    IF IsFinite(x) /\ IsFinite(y)
    THEN IF x[2] = 1 /\ y[2] = 1 THEN <<x[1] * y[1], 1>>
         ELSE LET g1 == GCD(Abs(x[1]), y[2])
                  g2 == GCD(Abs(y[1]), x[2])
              IN  <<(x[1] \div g1) * (y[1] \div g2), (x[2] \div g2) * (y[2] \div g1)>>
    ELSE <<Sign(x[1]) * Sign(y[1]), 0>>

Div(x, y) ==
    IF IsFinite(x) /\ IsFinite(y)
    THEN IF y[1] = 0 THEN <<Sign(x[1]), 0>>
         ELSE LET r == IF y[1] < 0 THEN <<-y[2], -y[1]>> ELSE <<y[2], y[1]>>
              IN  Mul(x, r)
    ELSE IF IsFinite(x) /\ y # NaN THEN Num(0)
    ELSE IF IsFinite(y) /\ x # NaN THEN <<x[1] * (IF y[1] < 0 THEN -1 ELSE 1), 0>>
    ELSE NaN

\* x < y; every comparison with NaN is false
Lt(x, y) ==
    IF IsFinite(x) /\ IsFinite(y)
    THEN IF x[2] = y[2] THEN x[1] < y[1]
         ELSE LET g == GCD(x[2], y[2])
              IN  x[1] * (y[2] \div g) < y[1] * (x[2] \div g)
    ELSE x # NaN /\ y # NaN /\ x # y /\ (x = NegInfinity \/ y = Infinity)

Gt(x, y) == Lt(y, x)

Le(x, y) == x # NaN /\ y # NaN /\ ~Lt(y, x)

Ge(x, y) == Le(y, x)

\* a / b for integers, b > 0, rounded to the nearest integer (half up)
RoundDiv(a, b) == (a + (b \div 2)) \div b

\* Math.round
MathRound(x) == IF IsFinite(x) THEN Num(RoundDiv(x[1], x[2])) ELSE x

MathAbs(x) == <<Abs(x[1]), x[2]>>

\* x rounded to the grid of step 1/res
Quantize(x, res) ==
    IF IsFinite(x)
    THEN LET g == GCD(x[2], res)
         IN  Norm(RoundDiv(x[1] * (res \div g), x[2] \div g), res)
    ELSE x

\* Array.prototype.reduce((a, b) => a + b, 0); once the accumulator is NaN it stays NaN
RECURSIVE SumFrom(_, _, _)
SumFrom(s, i, acc) ==
    IF i > Len(s) \/ acc = NaN THEN acc ELSE SumFrom(s, i + 1, Add(acc, s[i]))

Sum(s) == SumFrom(s, 1, Num(0))

\* Array.prototype.slice(-k)
SliceLast(s, k) == SubSeq(s, Max(1, Len(s) - k + 1), Len(s))

(***************************************************************************)
(* Technical-analysis functions.  Each local constant of the source is a   *)
(* parameter of the operator that uses it, so that it is computed once.    *)
(***************************************************************************)
\* prices.slice(-period - 1).map((p, i, arr) => i === 0 ? 0 : p - arr[i - 1]).slice(1)
Changes(arr) == [i \in 1..(Len(arr) - 1) |-> Sub(arr[i + 1], arr[i])]

Gains(changes) == SelectSeq(changes, LAMBDA c : Gt(c, Num(0)))

Losses(changes) ==
    LET negative == SelectSeq(changes, LAMBDA c : Lt(c, Num(0)))
    IN  [i \in 1..Len(negative) |-> MathAbs(negative[i])]

\* xs.length > 0 ? xs.reduce((a, b) => a + b, 0) / period : 0
AverageOver(xs, period) == IF Len(xs) > 0 THEN Div(Sum(xs), Num(period)) ELSE Num(0)

\* the RSI formula without the avgLoss === 0 branch
RSIUnguarded(avgGain, avgLoss) ==
    Sub(Num(100), Div(Num(100), Add(Num(1), Div(avgGain, avgLoss))))

RSIOfAverages(avgGain, avgLoss) ==
    IF avgLoss = Num(0) THEN Num(100)
    ELSE Sub(Num(100), Div(Num(100), Add(Num(1), Div(avgGain, avgLoss))))

RSIOfChanges(changes, period) ==
    RSIOfAverages(AverageOver(Gains(changes), period), AverageOver(Losses(changes), period))

calculateRSI(prices, period) ==
    IF Len(prices) < period + 1 THEN Num(50)
    ELSE RSIOfChanges(Changes(SliceLast(prices, period + 1)), period)

MeanOf(slice) == Div(Sum(slice), Num(Len(slice)))

\* the SMA dividing by period, not by slice.length
calculateSMAByPeriod(prices, period) == Div(Sum(SliceLast(prices, period)), Num(period))

calculateSMA(prices, period) == MeanOf(SliceLast(prices, period))

\* the EMA step with its two weights exchanged: prices[i] * (1 - k) + ema * k
EMAStepSwapped(ema, price, k) ==
    Quantize(Add(Mul(price, Sub(Num(1), k)), Mul(ema, k)), Resolution)

\* one step of the EMA loop: prices[i] * k + ema * (1 - k)
EMAStep(ema, price, k) == Quantize(Add(Mul(price, k), Mul(ema, Sub(Num(1), k))), Resolution)

\* the loop of calculateEMA from index i on; once ema is NaN it stays NaN
RECURSIVE EMAFrom(_, _, _, _)
EMAFrom(prices, k, i, ema) ==
    IF i > Len(prices) \/ ema = NaN THEN ema
    ELSE EMAFrom(prices, k, i + 1, EMAStep(ema, prices[i], k))

calculateEMA(prices, period) ==
    EMAFrom(prices, Div(Num(2), Num(period + 1)), 2, Quantize(prices[1], Resolution))

MACDResult(macd, signal) == [macd |-> macd, signal |-> signal, histogram |-> Sub(macd, signal)]

\* the signal line as the 9-period EMA of every price followed by macd
MACDOfLineAllPrices(prices, macd) ==
    MACDResult(macd, calculateEMA(Append(prices, macd), 9))

\* signal = calculateEMA([...prices.slice(0, -9), macd], 9)
MACDOfLine(prices, macd) ==
    MACDResult(macd, calculateEMA(Append(SubSeq(prices, 1, Len(prices) - 9), macd), 9))

calculateMACD(prices) ==
    MACDOfLine(prices, Sub(calculateEMA(prices, 12), calculateEMA(prices, 26)))

\* the volume trend without the previous > 0 guard
VolumeTrendUnguarded(recent, previous) == Div(Sub(recent, previous), previous)

VolumeTrendOf(recent, previous) ==
    IF Gt(previous, Num(0)) THEN Div(Sub(recent, previous), previous) ELSE Num(0)

calculateVolumeTrend(volumes) ==
    IF Len(volumes) < 10 THEN Num(0)
    ELSE VolumeTrendOf(Div(Sum(SubSeq(volumes, Len(volumes) - 4, Len(volumes))), Num(5)),
                       Div(Sum(SubSeq(volumes, Len(volumes) - 9, Len(volumes) - 5)), Num(5)))

\* the position of each element in the sorted array: the number of elements that the
\* comparator (a, b) => a - b orders before it, itself included (the sort is stable)
Ranks(s) ==
    [i \in 1..Len(s) |->
        Cardinality({j \in 1..Len(s) : Lt(s[j], s[i]) \/ (s[j] = s[i] /\ j <= i)})]

Reorder(s, rank) == [k \in 1..Len(s) |-> s[CHOOSE i \in 1..Len(s) : rank[i] = k]]

\* [...s].sort((a, b) => a - b): a new array, s itself is left as it is
SortAscending(s) == Reorder(s, Ranks(s))

\* the least and the greatest price in place of the two percentiles
PercentilesMinMax(sorted) == [support |-> sorted[1], resistance |-> sorted[Len(sorted)]]

\* sorted[Math.floor(sorted.length * 0.1)] and sorted[Math.floor(sorted.length * 0.9)]
Percentiles(sorted) ==
    [support    |-> sorted[(Len(sorted) \div 10) + 1],
     resistance |-> sorted[((9 * Len(sorted)) \div 10) + 1]]

calculateSupportResistance(prices) == Percentiles(SortAscending(prices))

\* the prices array as a sort in place would leave it: prices.sort((a, b) => a - b)
PricesSortedInPlace(prices) == SortAscending(prices)

\* the prices array after calculateSupportResistance returns: the sort ran on the
\* copy [...prices], so the array is as it was
PricesAfterSort(prices) == prices

Square(x) == Mul(x, x)

VarianceAbout(values, mean) ==
    Div(Sum([i \in 1..Len(values) |-> Square(Sub(values[i], mean))]), Num(Len(values)))

\* the sample variance: the sum of squares divided by values.length - 1
calculateVarianceSample(values) ==
    Div(Mul(VarianceAbout(values, Quantize(Div(Sum(values), Num(Len(values))),
                                           ReturnResolution)),
            Num(Len(values))),
        Num(Len(values) - 1))

calculateVariance(values) ==
    VarianceAbout(values, Quantize(Div(Sum(values), Num(Len(values))), ReturnResolution))

\* prices.slice(1).map((p, i) => (p - prices[i]) / prices[i])
Returns(prices) ==
    [i \in 1..(Len(prices) - 1) |->
        Quantize(Div(Sub(prices[i + 1], prices[i]), prices[i]), ReturnResolution)]

\* Math.sqrt(variance) * 100 < t  iff  variance * 100^2 < t^2; with NaN both are false
VolatilityBelow(variance, t) == Lt(Mul(variance, Num(10000)), Num(t * t))

VolatilityClass(variance) ==
    IF VolatilityBelow(variance, 2) THEN "low"
    ELSE IF VolatilityBelow(variance, 5) THEN "medium"
    ELSE "high"

calculateVolatility(prices) == VolatilityClass(calculateVariance(Returns(prices)))

\* prices[prices.length - 8] || prices[0]
WeekAgo(prices) ==
    IF Len(prices) >= 8 /\ prices[Len(prices) - 7] \notin {Num(0), NaN}
    THEN prices[Len(prices) - 7]
    ELSE prices[1]

\* the trend rule without the comparison of the two averages
TrendRuleWithoutCross(current, sma20, sma50, priceChange) ==
    IF Gt(current, sma20) /\ Gt(priceChange, <<1, 50>>) THEN "bullish"
    ELSE IF Lt(current, sma20) /\ Lt(priceChange, <<-1, 50>>) THEN "bearish"
    ELSE "sideways"

\* the trend rule with thresholds of 0.2 and -0.2 in place of 0.02 and -0.02
TrendRuleTwentyPercent(current, sma20, sma50, priceChange) ==
    IF Gt(current, sma20) /\ Gt(sma20, sma50) /\ Gt(priceChange, <<1, 5>>) THEN "bullish"
    ELSE IF Lt(current, sma20) /\ Lt(sma20, sma50) /\ Lt(priceChange, <<-1, 5>>)
         THEN "bearish"
    ELSE "sideways"

\* the trend rule with the comparison of the two averages not strict
TrendRuleNonStrict(current, sma20, sma50, priceChange) ==
    IF Gt(current, sma20) /\ Ge(sma20, sma50) /\ Gt(priceChange, <<1, 50>>) THEN "bullish"
    ELSE IF Lt(current, sma20) /\ Le(sma20, sma50) /\ Lt(priceChange, <<-1, 50>>)
         THEN "bearish"
    ELSE "sideways"

TrendRule(current, sma20, sma50, priceChange) ==
    IF Gt(current, sma20) /\ Gt(sma20, sma50) /\ Gt(priceChange, <<1, 50>>) THEN "bullish"
    ELSE IF Lt(current, sma20) /\ Lt(sma20, sma50) /\ Lt(priceChange, <<-1, 50>>)
         THEN "bearish"
    ELSE "sideways"

PriceChange(current, weekAgo) == Div(Sub(current, weekAgo), weekAgo)

determineTrend(prices, sma20, sma50) ==
    TrendRule(prices[Len(prices)], sma20, sma50,
              PriceChange(prices[Len(prices)], WeekAgo(prices)))

(***************************************************************************)
(* Signal conversion functions.                                            *)
(***************************************************************************)
\* rsiToSignal with the four thresholds inclusive
rsiToSignalInclusive(rsi) ==
    IF Le(rsi, Num(20)) THEN "strong_buy"
    ELSE IF Le(rsi, Num(30)) THEN "buy"
    ELSE IF Ge(rsi, Num(80)) THEN "strong_sell"
    ELSE IF Ge(rsi, Num(70)) THEN "sell"
    ELSE "neutral"

rsiToSignal(rsi) ==
    IF Lt(rsi, Num(20)) THEN "strong_buy"
    ELSE IF Lt(rsi, Num(30)) THEN "buy"
    ELSE IF Gt(rsi, Num(80)) THEN "strong_sell"
    ELSE IF Gt(rsi, Num(70)) THEN "sell"
    ELSE "neutral"

rsiInterpretation(rsi) ==
    IF Lt(rsi, Num(20)) THEN "Extremely oversold - potential reversal"
    ELSE IF Lt(rsi, Num(30)) THEN "Oversold territory"
    ELSE IF Gt(rsi, Num(80)) THEN "Extremely overbought - potential reversal"
    ELSE IF Gt(rsi, Num(70)) THEN "Overbought territory"
    ELSE "Neutral momentum"

macdToSignal(macd) ==
    IF Gt(macd.histogram, Num(0)) /\ Gt(macd.macd, macd.signal)
    THEN IF Gt(macd.histogram, <<1, 100>>) THEN "strong_buy" ELSE "buy"
    ELSE IF Lt(macd.histogram, Num(0)) /\ Lt(macd.macd, macd.signal)
    THEN IF Lt(macd.histogram, <<-1, 100>>) THEN "strong_sell" ELSE "sell"
    ELSE "neutral"

\* signalToScore with the strong signals scored 3 and -3
signalToScoreWide(signal) ==
    CASE signal = "strong_buy"  -> 3
      [] signal = "buy"         -> 1
      [] signal = "neutral"     -> 0
      [] signal = "sell"        -> -1
      [] signal = "strong_sell" -> -3

signalToScore(signal) ==
    CASE signal = "strong_buy"  -> 2
      [] signal = "buy"         -> 1
      [] signal = "neutral"     -> 0
      [] signal = "sell"        -> -1
      [] signal = "strong_sell" -> -2

\* scoreToSignal with the strong signals from 1 and -1 on
scoreToSignalStrongFromOne(score) ==
    IF Ge(score, Num(1)) THEN "strong_buy"
    ELSE IF Ge(score, <<1, 2>>) THEN "buy"
    ELSE IF Le(score, Num(-1)) THEN "strong_sell"
    ELSE IF Le(score, <<-1, 2>>) THEN "sell"
    ELSE "neutral"

\* scoreToSignal with buy and sell from 0.4 and -0.4 on
scoreToSignalLowBuy(score) ==
    IF Ge(score, <<3, 2>>) THEN "strong_buy"
    ELSE IF Ge(score, <<2, 5>>) THEN "buy"
    ELSE IF Le(score, <<-3, 2>>) THEN "strong_sell"
    ELSE IF Le(score, <<-2, 5>>) THEN "sell"
    ELSE "neutral"

scoreToSignal(score) ==
    IF Ge(score, <<3, 2>>) THEN "strong_buy"
    ELSE IF Ge(score, <<1, 2>>) THEN "buy"
    ELSE IF Le(score, <<-3, 2>>) THEN "strong_sell"
    ELSE IF Le(score, <<-1, 2>>) THEN "sell"
    ELSE "neutral"

signalText(signal) ==
    CASE signal = "strong_buy"  -> "Strong Buy"
      [] signal = "buy"         -> "Buy"
      [] signal = "neutral"     -> "Hold/Neutral"
      [] signal = "sell"        -> "Sell"
      [] signal = "strong_sell" -> "Strong Sell"

\* String.prototype.toUpperCase on the symbols of the model
toUpperCase(s) ==
    CASE s = "eth" -> "ETH"
      [] s = "ETH" -> "ETH"
      [] s = "dai" -> "DAI"
      [] OTHER     -> s

\* the summary counting buy and sell only, leaving strong_buy and strong_sell out
generateSummaryPlainOnly(sym, signal, confidence, trend, indicators) ==
    [symbol |-> toUpperCase(sym), signalText |-> signalText(signal),
     confidence |-> confidence, trend |-> trend,
     bullish |-> Len(SelectSeq(indicators, LAMBDA i : i.signal = "buy")),
     bearish |-> Len(SelectSeq(indicators, LAMBDA i : i.signal = "sell")),
     total |-> Len(indicators)]

\* the parts the template string of generateSummary interpolates, in order
generateSummary(sym, signal, confidence, trend, indicators) ==
    LET bullishIndicators == Len(SelectSeq(indicators,
                                 LAMBDA i : i.signal = "buy" \/ i.signal = "strong_buy"))
        bearishIndicators == Len(SelectSeq(indicators,
                                 LAMBDA i : i.signal = "sell" \/ i.signal = "strong_sell"))
    IN  [symbol |-> toUpperCase(sym), signalText |-> signalText(signal),
         confidence |-> confidence, trend |-> trend,
         bullish |-> bullishIndicators, bearish |-> bearishIndicators,
         total |-> Len(indicators)]

(***************************************************************************)
(* The series the upstream provider can return (fetchPriceHistory).  A     *)
(* series is a run of PrefixLen points at one level followed by points     *)
(* that start at StartLevel and move by a repeating pattern of three       *)
(* deltas; prices are levels divided by a unit, volumes are one value for  *)
(* the last five points and one for the points before them.  The short     *)
(* series start one point below the minimum the engine accepts.            *)
(***************************************************************************)
Patterns == {<<0, 0, 0>>, <<2, 2, 2>>, <<-1, -1, -1>>, <<2, -1, 2>>, <<-1, 2, -1>>}

LongPatterns == {<<1, 1, 1>>, <<2, 2, 2>>, <<1, 2, 1>>, <<-1, -1, -1>>}

StartLevels == {100}

LongStarts == {100, 600}

NoPrefix == <<0, 1>>

Prefixes == {NoPrefix, <<1, 400>>, <<5, 10>>}

Units == {1, 100000}

VolumeProfiles == {<<0, 0>>, <<1000, 1000>>, <<20, 0>>, <<19, 20>>}

\* the level of point i (from 1) of the patterned part
PatternLevel(start, pat, i) ==
    LET j == i - 1
        q == j \div 3
        r == j % 3
    IN  start + q * (pat[1] + pat[2] + pat[3])
              + (IF r >= 1 THEN pat[1] ELSE 0) + (IF r >= 2 THEN pat[2] ELSE 0)

MakeSeries(n, prefix, start, pat, unit, vol) ==
    [i \in 1..n |->
        [timestamp |-> i,
         price     |-> Norm(IF i <= prefix[1] THEN prefix[2]
                            ELSE PatternLevel(start, pat, i - prefix[1]), unit),
         volume    |-> Num(IF i > n - 5 THEN vol[2] ELSE vol[1])]]

ShortSeries ==
    { MakeSeries(n, pre, st, pat, u, vol) :
        n \in 13..MaxLen, pre \in Prefixes, st \in StartLevels, pat \in Patterns,
        u \in Units, vol \in VolumeProfiles }

LongSeries ==
    { MakeSeries(LongLen, NoPrefix, st, pat, 1, <<20, 19>>) :
        st \in LongStarts, pat \in LongPatterns }

\* price moves that put the RSI of a 15-point series on 80, 70, 30 and 20
BoundaryPatterns == {<<4, -1, 0>>, <<7, -3, 0>>, <<-7, 3, 0>>, <<-4, 1, 0>>}

BoundarySeries ==
    { MakeSeries(15, NoPrefix, 100, pat, 1, <<1000, 1000>>) :
        pat \in BoundaryPatterns }

\* rising and falling series of 20 and 21 points: as long as the SMA 20 window and
\* one point longer
WindowEdgeSeries ==
    { MakeSeries(n, NoPrefix, 100, pat, 1, <<1000, 1000>>) :
        n \in {20, 21}, pat \in {<<2, 2, 2>>, <<-1, -1, -1>>} }

SeriesInputs == ShortSeries \cup LongSeries \cup BoundarySeries \cup WindowEdgeSeries

Symbols == {"eth"}

NoReport == [none |-> TRUE]

(***************************************************************************)
(* generateTradingSignals, from the point where the fetch has resolved.    *)
(***************************************************************************)
Prices(history) == [i \in 1..Len(history) |-> history[i].price]

VolumesOf(history) == [i \in 1..Len(history) |-> history[i].volume]

RsiIndicator(rsi) ==
    [name |-> "RSI (14)", value |-> rsi, signal |-> rsiToSignal(rsi),
     interpretation |-> rsiInterpretation(rsi)]

Sma20Indicator(sma20, currentPrice) ==
    [name |-> "SMA 20", value |-> sma20,
     signal |-> IF Gt(currentPrice, sma20) THEN "buy" ELSE "sell",
     interpretation |-> IF Gt(currentPrice, sma20) THEN "Price above 20-day SMA (bullish)"
                        ELSE "Price below 20-day SMA (bearish)"]

\* the SMA 50 indicator with a neutral signal when the price equals the average
Sma50IndicatorNeutralOnTie(sma50, currentPrice) ==
    [name |-> "SMA 50", value |-> sma50,
     signal |-> IF Gt(currentPrice, sma50) THEN "buy"
                ELSE IF Lt(currentPrice, sma50) THEN "sell" ELSE "neutral",
     interpretation |-> IF Gt(currentPrice, sma50) THEN "Price above 50-day SMA (bullish)"
                        ELSE "Price below 50-day SMA (bearish)"]

Sma50Indicator(sma50, currentPrice) ==
    [name |-> "SMA 50", value |-> sma50,
     signal |-> IF Gt(currentPrice, sma50) THEN "buy" ELSE "sell",
     interpretation |-> IF Gt(currentPrice, sma50) THEN "Price above 50-day SMA (bullish)"
                        ELSE "Price below 50-day SMA (bearish)"]

MacdIndicator(macd) ==
    [name |-> "MACD", value |-> macd.histogram, signal |-> macdToSignal(macd),
     interpretation |-> IF Gt(macd.histogram, Num(0))
                        THEN "MACD histogram positive (bullish momentum)"
                        ELSE "MACD histogram negative (bearish momentum)"]

\* the Volume Trend indicator with the buy signal only above 0.1
VolumeIndicatorSymmetric(volumeTrend) ==
    [name |-> "Volume Trend", value |-> volumeTrend,
     signal |-> IF Gt(volumeTrend, <<1, 10>>) THEN "buy"
                ELSE IF Lt(volumeTrend, <<-1, 10>>) THEN "sell" ELSE "neutral",
     interpretation |-> IF Gt(volumeTrend, <<1, 10>>) THEN "Volume increasing (confirms trend)"
                        ELSE IF Lt(volumeTrend, <<-1, 10>>)
                             THEN "Volume decreasing (weakening trend)"
                        ELSE "Volume stable"]

VolumeIndicator(volumeTrend) ==
    [name |-> "Volume Trend", value |-> volumeTrend,
     signal |-> IF Gt(volumeTrend, Num(0)) THEN "buy"
                ELSE IF Lt(volumeTrend, <<-1, 10>>) THEN "sell" ELSE "neutral",
     interpretation |-> IF Gt(volumeTrend, <<1, 10>>) THEN "Volume increasing (confirms trend)"
                        ELSE IF Lt(volumeTrend, <<-1, 10>>)
                             THEN "Volume decreasing (weakening trend)"
                        ELSE "Volume stable"]

\* the indicators array after its five pushes
IndicatorsOf(prices, volumes) ==
    << RsiIndicator(calculateRSI(prices, 14)),
       Sma20Indicator(calculateSMA(prices, 20), prices[Len(prices)]),
       Sma50Indicator(calculateSMA(prices, Min(50, Len(prices))), prices[Len(prices)]),
       MacdIndicator(calculateMACD(prices)),
       VolumeIndicator(calculateVolumeTrend(volumes)) >>

\* indicators.map(i => signalToScore(i.signal))
SignalScores(indicators) ==
    [i \in 1..Len(indicators) |-> Num(signalToScore(indicators[i].signal))]

\* the average dividing by signalScores.length - 1
AvgScoreOffByOne(signalScores) == Div(Sum(signalScores), Num(Len(signalScores) - 1))

\* signalScores.reduce((a, b) => a + b, 0) / signalScores.length
AvgScore(signalScores) == Div(Sum(signalScores), Num(Len(signalScores)))

\* Math.max(0, Math.min(100, x)); NaN stays NaN
Clamp(x) ==
    IF x = NaN THEN NaN
    ELSE IF Lt(x, Num(0)) THEN Num(0)
    ELSE IF Gt(x, Num(100)) THEN Num(100)
    ELSE x

Confidence(signalScores) ==
    Clamp(Sub(Num(100), Mul(calculateVariance(signalScores), Num(20))))

\* the confidence field without Math.round
UnroundedConfidence(confidence) == confidence

\* the confidence field of the returned object
RoundedConfidence(confidence) == MathRound(confidence)

ReturnedObject(sym, currentPrice, prices, indicators, levels, overallSignal, confidence, trend, time) ==
    [symbol |-> toUpperCase(sym), currentPrice |-> currentPrice,
     overallSignal |-> overallSignal, confidence |-> RoundedConfidence(confidence),
     indicators |-> indicators, supportLevel |-> levels.support,
     resistanceLevel |-> levels.resistance, trend |-> trend,
     volatility |-> calculateVolatility(prices),
     summary |-> generateSummary(sym, overallSignal, confidence, trend, indicators),
     generatedAt |-> time]

\* determineTrend and calculateVolatility read prices after the sort of line 243
Aggregate(sym, prices, indicators, signalScores, time) ==
    ReturnedObject(sym, prices[Len(prices)], PricesAfterSort(prices), indicators,
                   calculateSupportResistance(prices),
                   scoreToSignal(AvgScore(signalScores)), Confidence(signalScores),
                   determineTrend(PricesAfterSort(prices), indicators[2].value,
                                  indicators[3].value), time)

Analyse(sym, prices, indicators, time) ==
    Aggregate(sym, prices, indicators, SignalScores(indicators), time)

\* the body of generateTradingSignals after the length check
BuildReport(sym, history, time) ==
    Analyse(sym, Prices(history), IndicatorsOf(Prices(history), VolumesOf(history)), time)

\* a length check that is off by one: priceHistory.length < 13
MinHistoryOffByOne == 14 - 1

\* the least priceHistory.length that generateTradingSignals accepts
MinHistory == 14

\* the report with the value of new Date() at the return statement
Stamp(r, time) == [r EXCEPT !.generatedAt = time]

(***************************************************************************)
(* The state machine: a caller invoking generateTradingSignals, one call   *)
(* after the other, against an upstream whose series is fixed for the run. *)
(* callPrices and callVolumes are the arrays prices and volumes of the     *)
(* call as the call leaves them.                                           *)
(* report holds the last report a call returned.  generatedAt counts the   *)
(* clock ticks since the first report was returned: new Date() never runs  *)
(* backwards, and two calls can return within one tick.                    *)
(***************************************************************************)
\* no request is being served: the engine is called directly
NoRequest == [none |-> TRUE]

NoResponse == [none |-> TRUE]

\* the request has made no balance lookup
NoLookup == [none |-> TRUE]

\* config.network when NETWORK is not set: Base Sepolia
Testnet == "eip155:84532"

Init ==
    /\ upstream \in SeriesInputs
    /\ pc = "idle"
    /\ symbol \in Symbols
    /\ priceHistory = <<>>
    /\ callPrices = <<>>
    /\ callVolumes = <<>>
    /\ report = NoReport
    /\ error = "none"
    /\ network = Testnet
    /\ request = NoRequest
    /\ stage = "direct"
    /\ response = NoResponse
    /\ handled = {}
    /\ lookup = NoLookup

LastTime == IF report = NoReport THEN 0 ELSE report.generatedAt

\* the values new Date() can take at the return statement
ReturnTimes == IF report = NoReport THEN {0} ELSE report.generatedAt..MaxClock

\* generateTradingSignals(symbol) is called and awaits fetchPriceHistory
Invoke ==
    /\ pc \in {"idle", "done", "failed"}
    /\ LastTime < MaxClock
    /\ pc' = "fetching"
    /\ error' = "none"
    /\ priceHistory' = <<>>
    /\ callPrices' = <<>>
    /\ callVolumes' = <<>>
    /\ UNCHANGED <<upstream, symbol, report>>
    /\ UNCHANGED httpVars

\* the fetch resolves with a series that is too short: the call throws
ResolveShort ==
    /\ pc = "fetching"
    /\ Len(upstream) < MinHistory
    /\ priceHistory' = upstream
    /\ error' = "Insufficient price history for technical analysis"
    /\ pc' = "failed"
    /\ UNCHANGED <<upstream, symbol, report, callPrices, callVolumes>>
    /\ UNCHANGED httpVars

\* ResolveReport with the indicators array shared between the calls, so that each
\* call pushes its five indicators after those of the calls before it
ResolveReportSharedIndicators ==
    /\ pc = "fetching"
    /\ ~(Len(upstream) < MinHistory)
    /\ priceHistory' = upstream
    /\ \E r \in {BuildReport(symbol, upstream, 0)} :
          \E time \in ReturnTimes :
              report' = [Stamp(r, time) EXCEPT
                            !.indicators = (IF report = NoReport THEN <<>>
                                            ELSE report.indicators) \o r.indicators]
    /\ callPrices' = PricesAfterSort(Prices(upstream))
    /\ callVolumes' = VolumesOf(upstream)
    /\ pc' = "done"
    /\ UNCHANGED <<upstream, symbol, error>>
    /\ UNCHANGED httpVars

\* the fetch resolves and the rest of generateTradingSignals runs
ResolveReport ==
    /\ pc = "fetching"
    /\ ~(Len(upstream) < MinHistory)
    /\ priceHistory' = upstream
    /\ \E r \in {BuildReport(symbol, upstream, 0)} :
          \E time \in ReturnTimes : report' = Stamp(r, time)
    /\ callPrices' = PricesAfterSort(Prices(upstream))
    /\ callVolumes' = VolumesOf(upstream)
    /\ pc' = "done"
    /\ UNCHANGED <<upstream, symbol, error>>
    /\ UNCHANGED httpVars

\* axios.get fails and fetchPriceHistory rethrows
FetchReject ==
    /\ pc = "fetching"
    /\ error' = "Failed to fetch price history"
    /\ pc' = "failed"
    /\ UNCHANGED <<upstream, symbol, priceHistory, callPrices, callVolumes, report>>
    /\ UNCHANGED httpVars

Next == Invoke \/ ResolveShort \/ ResolveReport \/ FetchReject

Spec == Init /\ [][Next]_vars

(***************************************************************************)
(* The HTTP service of src/index.ts.  One request at a time goes through   *)
(* the layers of the Express app in the order index.ts registers them:     *)
(* the CORS middleware, the free endpoints, the payment middleware mounted *)
(* at /api, the three paid handlers, and the 404 answer Express gives when *)
(* no layer ends the request.  stage is the layer the request has reached; *)
(* handled is the set of paid handlers that ran for the request.           *)
(* A path is the sequence of its segments: /api/price is <<"api","price">> *)
(* and a trailing slash leaves an empty last segment.                      *)
(***************************************************************************)
\* the value of NETWORK for which isMainnet is true
Mainnet == "eip155:8453"

Networks == {Testnet, Mainnet}

isMainnet == network = Mainnet

\* a header, query parameter or property that is not there
Undefined == "<undefined>"

\* !v for a value that is a string or undefined
Falsy(v) == v = Undefined \/ v = ""

payToAddress == "0xede1a30a8b04cca77ecc8d690c552ac7b0d63817"

LongSymbol == "ethereumclassic"

\* String.prototype.length on the symbols of the model
Length(s) == IF s = LongSymbol THEN 15 ELSE IF s = "" THEN 0 ELSE 3

\* /^0x[a-fA-F0-9]{40}$/.test(address) on the addresses of the model
AddressRegexTest(address) == address = payToAddress

\* String.prototype.toLowerCase on the segments of the model
toLowerCase(s) == IF s = "PRICE" THEN "price" ELSE IF s = "API" THEN "api" ELSE s

Paths ==
    { <<"api", "price">>, <<"api", "PRICE">>, <<"api", "price", "">>,
      <<"API", "price">>,
      <<"api", "portfolio", payToAddress>>, <<"api", "portfolio", "0x123">>,
      <<"api", "signals", "eth">>, <<"api", "signals", "eth", "">>,
      <<"api", "signals", LongSymbol>>,
      <<"health">>, <<"favicon.ico">> }

HeaderSets ==
    { ("payment-signature" :> s) @@ ("x-payment" :> x) :
        s \in {Undefined, "", "test"}, x \in {Undefined, "0xsigned"} }

NoQuery == [symbol |-> Undefined, contractAddress |-> Undefined, chain |-> Undefined]

Queries ==
    { NoQuery,
      [NoQuery EXCEPT !.symbol = "ETH"],
      [NoQuery EXCEPT !.symbol = "NOTREAL"],
      [NoQuery EXCEPT !.contractAddress = "0xtoken"],
      [NoQuery EXCEPT !.contractAddress = "0xtoken", !.chain = "base"] }

QueriesOf(path) == IF Len(path) = 2 /\ path[2] \in {"price", "PRICE"} THEN Queries ELSE {NoQuery}

Requests ==
    UNION { { [method |-> "GET", path |-> p, headers |-> h, query |-> q] :
                h \in HeaderSets, q \in QueriesOf(p) } : p \in Paths }
    \cup { [method |-> "OPTIONS", path |-> <<"api", "price">>,
            headers |-> ("payment-signature" :> Undefined) @@ ("x-payment" :> Undefined),
            query |-> NoQuery] }

\* the routes of the free endpoints
FreeRoutes == { <<>>, <<"health">>, <<"x402", "discovery">> }

\* the keys of paymentRoutes in the order of the object literal, with the price of each
paymentRoutes ==
    << [method |-> "GET", path |-> <<"api", "price">>, price |-> "$0.001"],
       [method |-> "GET", path |-> <<"api", "portfolio", ":address">>, price |-> "$0.005"],
       [method |-> "GET", path |-> <<"api", "signals", ":symbol">>, price |-> "$0.01"] >>

\* the accepts list of a route configuration
Accepts(cfg) ==
    << [scheme |-> "exact", price |-> cfg.price, network |-> network, payTo |-> payToAddress] >>

IsParam(seg) == seg \in {":address", ":symbol"}

\* one segment against one segment of a pattern: a parameter stands for [^/]+
SegmentMatches(pat, seg, fold) ==
    IF IsParam(pat) THEN seg # ""
    ELSE IF fold THEN toLowerCase(seg) = toLowerCase(pat) ELSE seg = pat

PatternMatches(pattern, path, fold) ==
    /\ Len(path) = Len(pattern)
    /\ \A i \in 1..Len(pattern) : SegmentMatches(pattern[i], path[i], fold)

\* `/api${req.path}`: req.path is the path below the mount point
fullPath(req) == <<"api">> \o Tail(req.path)

\* new RegExp('^' + path.replace(/:[^/]+/g, '[^/]+') + '$').test(fullPath)
pathRegexTest(pattern, path) == PatternMatches(pattern, path, FALSE)

\* the indices of the keys of routeConfig that match the request
MatchingRoutes(req) ==
    { i \in 1..Len(paymentRoutes) :
        /\ paymentRoutes[i].method = req.method
        /\ pathRegexTest(paymentRoutes[i].path, fullPath(req)) }

\* the first match of the loop over Object.entries(routeConfig)
matchedConfig(req) ==
    paymentRoutes[CHOOSE i \in MatchingRoutes(req) : \A j \in MatchingRoutes(req) : i <= j]

\* req.headers['payment-signature'] || req.headers['x-payment']
paymentSignature(req) ==
    IF ~Falsy(req.headers["payment-signature"]) THEN req.headers["payment-signature"]
    ELSE req.headers["x-payment"]

\* a path without the one trailing slash that a route tolerates when strict
\* routing is off
StripSlash(path) ==
    IF Len(path) > 0 /\ path[Len(path)] = "" THEN SubSeq(path, 1, Len(path) - 1) ELSE path

\* the match of a route registered with app.get on the app created by express()
\* with its default settings: case sensitive routing and strict routing are off
RouteMatches(pattern, req) ==
    req.method = "GET" /\ PatternMatches(pattern, StripSlash(req.path), TRUE)

\* the request is below the mount point of app.use('/api', ...)
Mounted(req) == Len(req.path) > 0 /\ toLowerCase(req.path[1]) = "api"

\* the tokens the price provider knows
KnownTokens == {"ETH"}

\* the outcomes of getTokenPrice: a price, or the message of the Error thrown
getTokenPrice(query) ==
    IF ~Falsy(query.contractAddress) /\ ~Falsy(query.chain)
    THEN { [ok |-> TRUE, data |-> [symbol |-> "TOKEN", source |-> "dexscreener"]],
           [ok |-> FALSE, message |-> "Failed to fetch price from DexScreener"] }
    ELSE IF ~Falsy(query.symbol)
    THEN { [ok |-> FALSE, message |-> "Failed to fetch price from CoinGecko"] }
         \cup (IF query.symbol \in KnownTokens
               THEN { [ok |-> TRUE, data |-> [symbol |-> query.symbol, source |-> "coingecko"]] }
               ELSE { [ok |-> FALSE, message |-> "Token 'NOTREAL' not found on CoinGecko"] })
    ELSE { [ok |-> FALSE, message |-> "Either symbol or contractAddress+chain must be provided"] }

(***************************************************************************)
(* analyzePortfolio.  The balance lookup of getWalletTokens either throws  *)
(* or resolves with a list of assets; amounts are exact fractions.         *)
(***************************************************************************)
\* null
Null == [null |-> TRUE]

\* the outcomes of the balance lookup: it throws, or resolves with response.data
\* holding one of these asset lists (an absent property is Undefined)
WalletLookups ==
    LET eth  == [tokenSymbol |-> "ETH", contractAddress |-> Undefined, balanceUsd |-> "300"]
        usdc == [tokenSymbol |-> "USDC",
                 contractAddress |-> "0x833589fcd6edb6e08f4c7c32d4f71b54bda02913",
                 balanceUsd |-> "100"]
        dai  == [tokenSymbol |-> "dai",
                 contractAddress |-> "0x50c5725949a6f0c72e6c4a641f24049a917db0cb",
                 balanceUsd |-> "100"]
        dust == [tokenSymbol |-> Undefined, contractAddress |-> Undefined,
                 balanceUsd |-> Undefined]
    IN  { [threw |-> TRUE] }
        \cup { [threw |-> FALSE, assets |-> a] :
                 a \in { <<>>, <<eth>>, <<dust>>, <<usdc, eth>>, <<usdc, dai>>,
                         <<dust, usdc, eth, dai>> } }

\* parseFloat on the amounts of the model
parseFloat(s) ==
    CASE s = "300" -> Num(300)
      [] s = "100" -> Num(100)
      [] s = "0"   -> Num(0)
      [] OTHER     -> NaN

\* the holding that the map callback of getWalletTokens makes of an asset
HoldingOf(asset) ==
    [symbol |-> IF Falsy(asset.tokenSymbol) THEN "UNKNOWN" ELSE asset.tokenSymbol,
     contractAddress |-> IF Falsy(asset.contractAddress)
                         THEN "0x0000000000000000000000000000000000000000"
                         ELSE asset.contractAddress,
     valueUsd |-> parseFloat(IF Falsy(asset.balanceUsd) THEN "0" ELSE asset.balanceUsd),
     percentage |-> Num(0)]

\* getWalletTokens: the catch block returns [] for any error of the lookup
getWalletTokens(outcome) ==
    IF outcome.threw THEN <<>>
    ELSE [i \in 1..Len(outcome.assets) |-> HoldingOf(outcome.assets[i])]

\* totalValueUsd > 0 ? (value / totalValueUsd) * 100 : 0
PercentageOf(value, total) ==
    IF Gt(total, Num(0)) THEN Mul(Div(value, total), Num(100)) ELSE Num(0)

WithPercentage(holdings, total) ==
    [i \in 1..Len(holdings) |->
        [holdings[i] EXCEPT !.percentage = PercentageOf(holdings[i].valueUsd, total)]]

\* holdings sorted with (a, b) => a.valueUsd - b.valueUsd: the smallest value first
SortByValueAscending(holdings) ==
    [k \in 1..Len(holdings) |->
        holdings[CHOOSE i \in 1..Len(holdings) :
                    Cardinality({j \in 1..Len(holdings) :
                                    \/ Lt(holdings[j].valueUsd, holdings[i].valueUsd)
                                    \/ (holdings[j].valueUsd = holdings[i].valueUsd /\ j <= i)})
                        = k]]

\* sort((a, b) => b.valueUsd - a.valueUsd): the largest value first, equal values in
\* the order they had (the sort is stable)
SortByValue(holdings) ==
    [k \in 1..Len(holdings) |->
        holdings[CHOOSE i \in 1..Len(holdings) :
                    Cardinality({j \in 1..Len(holdings) :
                                    \/ Gt(holdings[j].valueUsd, holdings[i].valueUsd)
                                    \/ (holdings[j].valueUsd = holdings[i].valueUsd /\ j <= i)})
                        = k]]

\* Math.min(100, Math.max(0, 100 - hhi / 100)), hhi the sum of the squared percentages
DiversificationScore(holdings) ==
    Clamp(Sub(Num(100),
              Div(Sum([i \in 1..Len(holdings) |-> Square(holdings[i].percentage)]),
                  Num(100))))

\* holdings.reduce((sum, h) => sum + h.valueUsd, 0), also after a filter
TotalValue(holdings) == Sum([i \in 1..Len(holdings) |-> holdings[i].valueUsd])

\* the stablecoin test: an address of STABLECOINS[chain] or one of the five symbols
IsStablecoin(h, chain) ==
    \/ /\ toLowerCase(chain) = "base"
       /\ toLowerCase(h.contractAddress)
             \in {"0x833589fcd6edb6e08f4c7c32d4f71b54bda02913",
                  "0x50c5725949a6f0c72e6c4a641f24049a917db0cb"}
    \/ toUpperCase(h.symbol) \in {"USDC", "USDT", "DAI", "BUSD", "FRAX"}

\* the native token test: NATIVE_TOKENS[chain.toLowerCase()] || 'ETH'
IsNative(h, chain) ==
    toUpperCase(h.symbol) = (CASE toLowerCase(chain) = "polygon"   -> "MATIC"
                               [] toLowerCase(chain) = "avalanche" -> "AVAX"
                               [] toLowerCase(chain) = "bsc"       -> "BNB"
                               [] toLowerCase(chain) = "solana"    -> "SOL"
                               [] OTHER                            -> "ETH")

\* the object analyzePortfolio returns, from the sorted holdings
AnalysisOf(walletAddress, chain, holdings, total) ==
    [walletAddress |-> walletAddress, chain |-> chain, totalValueUsd |-> total,
     tokenCount |-> Len(holdings), holdings |-> holdings,
     topHolding |-> IF Len(holdings) > 0 THEN holdings[1] ELSE Null,
     diversificationScore |-> DiversificationScore(holdings),
     nativeTokenPercentage |->
         PercentageOf(TotalValue(SelectSeq(holdings, LAMBDA h : IsNative(h, chain))), total),
     stablecoinPercentage |->
         PercentageOf(TotalValue(SelectSeq(holdings, LAMBDA h : IsStablecoin(h, chain))), total)]

\* analyzePortfolio on an outcome of the balance lookup
analyzePortfolio(walletAddress, chain, outcome) ==
    AnalysisOf(walletAddress, chain,
               SortByValue(WithPercentage(getWalletTokens(outcome),
                                          TotalValue(getWalletTokens(outcome)))),
               TotalValue(getWalletTokens(outcome)))

\* res.status(code).json({ success: false, error: message, ... })
ErrorResponse(code, message) ==
    [status |-> code, body |-> [success |-> FALSE, error |-> message]]

\* res.json({ success: true, data: data, ... })
DataResponse(data) == [status |-> 200, body |-> [success |-> TRUE, data |-> data]]

\* the answer of a handler's try block or catch block to an outcome of its await
OutcomeResponse(outcome) ==
    IF outcome.ok THEN DataResponse(outcome.data) ELSE ErrorResponse(500, outcome.message)

\* res.status(402) ... res.json({ error: 'Payment Required', ... })
PaymentRequired(cfg) ==
    [status |-> 402,
     body |-> [error |-> "Payment Required", x402Version |-> 2, accepts |-> Accepts(cfg),
               network |-> network]]

\* the state of the signals engine
engineVars == <<upstream, pc, symbol, priceHistory, callPrices, callVolumes, report, error>>

\* the series the history provider holds while the service runs: one point short
\* of the least accepted length, and the least accepted length
HttpSeries ==
    { MakeSeries(n, NoPrefix, 100, <<-1, -1, -1>>, 1, <<1000, 1000>>) :
        n \in {MinHistory - 1, MinHistory} }

HttpInit ==
    /\ upstream \in HttpSeries
    /\ pc = "idle"
    /\ symbol \in Symbols
    /\ priceHistory = <<>>
    /\ callPrices = <<>>
    /\ callVolumes = <<>>
    /\ report = NoReport
    /\ error = "none"
    /\ network \in Networks
    /\ request = NoRequest
    /\ stage = "idle"
    /\ response = NoResponse
    /\ handled = {}
    /\ lookup = NoLookup

\* a request arrives; the one before it has been answered
Receive ==
    /\ stage \in {"idle", "responded"}
    /\ request' \in Requests
    /\ stage' = "cors"
    /\ response' = NoResponse
    /\ handled' = {}
    /\ lookup' = NoLookup
    /\ UNCHANGED network
    /\ UNCHANGED engineVars

\* the CORS middleware: a preflight request ends here
Cors ==
    /\ stage = "cors"
    /\ IF request.method = "OPTIONS"
       THEN /\ response' = [status |-> 200, body |-> [text |-> "OK"]]
            /\ stage' = "responded"
       ELSE /\ stage' = "free"
            /\ UNCHANGED response
    /\ UNCHANGED <<network, request, handled, lookup>>
    /\ UNCHANGED engineVars

\* the free endpoints /, /health and /x402/discovery
FreeEndpoint ==
    /\ stage = "free"
    /\ IF \E r \in FreeRoutes : RouteMatches(r, request)
       THEN /\ response' = [status |-> 200, body |-> [endpoint |-> StripSlash(request.path)]]
            /\ stage' = "responded"
       ELSE /\ stage' = "payment"
            /\ UNCHANGED response
    /\ UNCHANGED <<network, request, handled, lookup>>
    /\ UNCHANGED engineVars

\* the payment middleware; Express skips it for a request outside /api
x402PaymentMiddleware ==
    /\ stage = "payment"
    /\ IF ~Mounted(request) \/ MatchingRoutes(request) = {}
       THEN /\ stage' = "route"
            /\ UNCHANGED response
       ELSE IF Falsy(paymentSignature(request))
       THEN /\ response' = PaymentRequired(matchedConfig(request))
            /\ stage' = "responded"
       ELSE /\ stage' = "route"
            /\ UNCHANGED response
    /\ UNCHANGED <<network, request, handled, lookup>>
    /\ UNCHANGED engineVars

\* GET /api/price
PriceHandler ==
    /\ stage = "route"
    /\ RouteMatches(<<"api", "price">>, request)
    /\ handled' = handled \cup {"price"}
    /\ IF Falsy(request.query.symbol) /\ Falsy(request.query.contractAddress)
       THEN response' = ErrorResponse(400, "Either symbol or contractAddress must be provided")
       ELSE \E outcome \in getTokenPrice(request.query) : response' = OutcomeResponse(outcome)
    /\ stage' = "responded"
    /\ UNCHANGED <<network, request, lookup>>
    /\ UNCHANGED engineVars

\* GET /api/portfolio/:address
PortfolioHandler ==
    /\ stage = "route"
    /\ RouteMatches(<<"api", "portfolio", ":address">>, request)
    /\ handled' = handled \cup {"portfolio"}
    /\ \E address \in {StripSlash(request.path)[3]} :
          IF Falsy(address) \/ ~AddressRegexTest(address)
          THEN /\ response' = ErrorResponse(400, "Invalid wallet address format")
               /\ lookup' = NoLookup
          ELSE \E outcome \in WalletLookups :
                  /\ lookup' = outcome
                  /\ response' =
                        DataResponse(analyzePortfolio(address,
                                                      IF request.query.chain = Undefined
                                                      THEN "base" ELSE request.query.chain,
                                                      outcome))
    /\ stage' = "responded"
    /\ UNCHANGED <<network, request>>
    /\ UNCHANGED engineVars

\* GET /api/signals/:symbol, up to await generateTradingSignals(symbol)
SignalsHandler ==
    /\ stage = "route"
    /\ RouteMatches(<<"api", "signals", ":symbol">>, request)
    /\ handled' = handled \cup {"signals"}
    /\ \E sym \in {StripSlash(request.path)[3]} :
          IF Falsy(sym) \/ Length(sym) > 10
          THEN /\ response' = ErrorResponse(400, "Invalid symbol")
               /\ stage' = "responded"
               /\ UNCHANGED engineVars
          ELSE /\ pc' = "fetching"
               /\ symbol' = sym
               /\ error' = "none"
               /\ priceHistory' = <<>>
               /\ callPrices' = <<>>
               /\ callVolumes' = <<>>
               /\ stage' = "awaiting"
               /\ UNCHANGED <<upstream, report, response>>
    /\ UNCHANGED <<network, request, lookup>>

\* GET /api/signals/:symbol, after the await: the rest of the try block or the catch block
SignalsRespond ==
    /\ stage = "awaiting"
    /\ pc \in {"done", "failed"}
    /\ response' = IF pc = "done" THEN DataResponse(report) ELSE ErrorResponse(500, error)
    /\ stage' = "responded"
    /\ UNCHANGED <<network, request, handled, lookup>>
    /\ UNCHANGED engineVars

\* no layer ends the request: Express answers 404
NotFound ==
    /\ stage = "route"
    /\ \A i \in 1..Len(paymentRoutes) : ~RouteMatches(paymentRoutes[i].path, request)
    /\ response' = [status |-> 404, body |-> [text |-> "Not Found"]]
    /\ stage' = "responded"
    /\ UNCHANGED <<network, request, handled, lookup>>
    /\ UNCHANGED engineVars

HttpNext ==
    \/ Receive \/ Cors \/ FreeEndpoint \/ x402PaymentMiddleware
    \/ PriceHandler \/ PortfolioHandler \/ SignalsHandler
    \/ ResolveShort \/ ResolveReport \/ FetchReject
    \/ SignalsRespond \/ NotFound

HttpSpec == HttpInit /\ [][HttpNext]_vars

(***************************************************************************)
(* The aggregation of generateTradingSignals on its own: the five numbers  *)
(* that the calculators hand to the indicator pushes are drawn from sets   *)
(* that reach every branch of every push, whatever the series.  Every      *)
(* report of Spec's kind is built from five numbers, so what holds of all  *)
(* reports here holds of the reports of every series.                      *)
(***************************************************************************)
\* values of calculateRSI, one in each range of rsiToSignal
RsiValues == {Num(10), Num(25), Num(50), Num(75), Num(90)}

\* an average minus the current price: below it, equal to it, above it
SmaOffsets == {Num(-1), Num(0), Num(1)}

\* results of calculateMACD, one in each branch of macdToSignal
MacdValues ==
    { MACDResult(macd, Num(0)) : macd \in {Num(-1), <<-1, 200>>, Num(0), <<1, 200>>, Num(1)} }

\* values of calculateVolumeTrend on each side of 0, 0.1 and -0.1
VolumeTrendValues == {<<-1, 2>>, <<-1, 20>>, Num(0), <<1, 20>>, <<1, 2>>}

\* the indicators array after its five pushes, from the five computed numbers
IndicatorsFrom(rsi, sma20, sma50, macd, volumeTrend, currentPrice) ==
    << RsiIndicator(rsi), Sma20Indicator(sma20, currentPrice),
       Sma50Indicator(sma50, currentPrice), MacdIndicator(macd),
       VolumeIndicator(volumeTrend) >>

AggregationSeries == { MakeSeries(MinHistory, NoPrefix, 100, <<2, -1, 2>>, 1, <<1000, 1000>>) }

AggregationInit ==
    /\ upstream \in AggregationSeries
    /\ pc = "idle"
    /\ symbol \in Symbols
    /\ priceHistory = <<>>
    /\ callPrices = <<>>
    /\ callVolumes = <<>>
    /\ report = NoReport
    /\ error = "none"
    /\ network = Testnet
    /\ request = NoRequest
    /\ stage = "direct"
    /\ response = NoResponse
    /\ handled = {}
    /\ lookup = NoLookup

\* the first call of generateTradingSignals
FirstInvoke == report = NoReport /\ Invoke

\* the fetch resolves and the rest of generateTradingSignals runs on five numbers
\* of the sets above
ResolveWithIndicators ==
    /\ pc = "fetching"
    /\ ~(Len(upstream) < MinHistory)
    /\ priceHistory' = upstream
    /\ \E rsi \in RsiValues, d20 \in SmaOffsets, d50 \in SmaOffsets, macd \in MacdValues,
          volumeTrend \in VolumeTrendValues, currentPrice \in {upstream[Len(upstream)].price} :
          \E indicators \in {IndicatorsFrom(rsi, Add(currentPrice, d20), Add(currentPrice, d50),
                                            macd, volumeTrend, currentPrice)} :
             \E time \in ReturnTimes :
                report' = Analyse(symbol, Prices(upstream), indicators, time)
    /\ callPrices' = PricesAfterSort(Prices(upstream))
    /\ callVolumes' = VolumesOf(upstream)
    /\ pc' = "done"
    /\ UNCHANGED <<upstream, symbol, error>>
    /\ UNCHANGED httpVars

AggregationNext == FirstInvoke \/ ResolveWithIndicators

AggregationSpec == AggregationInit /\ [][AggregationNext]_vars

(***************************************************************************)
(* Properties of the engine.                                               *)
(***************************************************************************)
InsufficientHistory == "Insufficient price history for technical analysis"

\* the fetch of the current call has resolved and the call has ended
Resolved == pc \in {"done", "failed"} /\ priceHistory # <<>>

\* the call has returned a report, built from priceHistory
Returned == pc = "done"

SignalNames == {"strong_buy", "buy", "neutral", "sell", "strong_sell"}

\* C1: a call whose fetch resolved ends with the insufficient-history error exactly
\* when the series has fewer than 14 points, and returns a report otherwise; a
\* rejected call has computed nothing: it leaves no report behind.
C1_RejectsExactlyBelow14 ==
    /\ Resolved => ((pc = "failed" /\ error = InsufficientHistory) <=> Len(priceHistory) < 14)
    /\ Resolved => (pc = "done" <=> Len(priceHistory) >= 14)
    /\ error = InsufficientHistory => report = NoReport

\* a series of 13 points has been rejected
C1_Witness ==
    /\ pc = "failed"
    /\ Len(priceHistory) = 13
    /\ error = InsufficientHistory
    /\ report = NoReport

\* positive prices and non-negative volumes
ValidSeries(history) ==
    \A i \in 1..Len(history) :
        /\ IsFinite(history[i].price) /\ history[i].price[1] > 0
        /\ IsFinite(history[i].volume) /\ history[i].volume[1] >= 0

CompleteReport(r) ==
    /\ DOMAIN r = {"symbol", "currentPrice", "overallSignal", "confidence", "indicators",
                   "supportLevel", "resistanceLevel", "trend", "volatility", "summary",
                   "generatedAt"}
    /\ IsFinite(r.currentPrice) /\ IsFinite(r.confidence)
    /\ IsFinite(r.supportLevel) /\ IsFinite(r.resistanceLevel)
    /\ r.overallSignal \in SignalNames
    /\ r.trend \in {"bullish", "bearish", "sideways"}
    /\ r.volatility \in {"low", "medium", "high"}
    /\ Len(r.indicators) = 5
    /\ \A i \in 1..5 : IsFinite(r.indicators[i].value)
                       /\ r.indicators[i].signal \in SignalNames
    /\ IsFinite(r.summary.confidence)

\* C2: on a series of at least 14 points with positive prices and non-negative
\* volumes the call does not throw, and the report it returns has every field, with
\* every number finite.
C2_CompleteReportOnValidSeries ==
    (Resolved /\ Len(priceHistory) >= 14 /\ ValidSeries(priceHistory))
        => (pc = "done" /\ CompleteReport(report))

\* a report on a flat series whose volumes are all zero
C2_Witness ==
    /\ Returned
    /\ ValidSeries(priceHistory)
    /\ \A i \in 1..Len(priceHistory) :
          priceHistory[i].price = priceHistory[1].price /\ priceHistory[i].volume = Num(0)
    /\ Len(priceHistory) > 14

\* C3: the confidence of every returned report is an integer from 0 to 100.
C3_ConfidenceIntegerInRange ==
    Returned => (IsInteger(report.confidence)
                 /\ report.confidence[1] >= 0 /\ report.confidence[1] <= 100)

\* a report whose confidence had a fractional part before rounding
C3_Witness == Returned /\ ~IsInteger(report.summary.confidence)
\* the value of the RSI indicator of a report
ReportedRSI(r) == r.indicators[1].value

\* no price of the last 15 (of all of them, when there are fewer) is below the one before
NoLossInWindow(prices) ==
    \A i \in Max(2, Len(prices) - 13)..Len(prices) : ~Lt(prices[i], prices[i - 1])

RSIInRange(r) == Ge(ReportedRSI(r), Num(0)) /\ Le(ReportedRSI(r), Num(100))

\* C4 as stated: the RSI of every report lies in [0,100], and it is exactly 100
\* whenever no price in the RSI window falls.
C4_RSIHundredOnZeroLoss ==
    Returned => (RSIInRange(report)
                 /\ (NoLossInWindow(Prices(priceHistory)) => ReportedRSI(report) = Num(100)))

\* C4, amended: the RSI of every report lies in [0,100]; it is exactly 100 whenever
\* the series has at least 15 points and no price of the last 15 falls; on a series
\* of exactly 14 points it is 50 whatever the prices are.
C4_RSIInRangeHundredFrom15Points ==
    Returned => /\ RSIInRange(report)
                /\ (Len(priceHistory) >= 15 /\ NoLossInWindow(Prices(priceHistory)))
                       => ReportedRSI(report) = Num(100)
                /\ Len(priceHistory) = 14 => ReportedRSI(report) = Num(50)

\* a report on 15 or more points whose last 15 prices rise and never fall
C4_Witness ==
    /\ Returned
    /\ Len(priceHistory) >= 15
    /\ NoLossInWindow(Prices(priceHistory))
    /\ Gt(priceHistory[Len(priceHistory)].price, priceHistory[Len(priceHistory) - 1].price)
    /\ ReportedRSI(report) = Num(100)

\* a call returns while the report of an earlier call on the same series is at hand
SecondReturn == pc = "fetching" /\ pc' = "done" /\ report # NoReport

IsFlat(prices) == \A i \in 1..Len(prices) : prices[i] = prices[1]

\* C6 as stated: on a flat series the RSI is 50, the volatility is low and the MACD
\* histogram is 0.
C6_FlatSeriesNeutral ==
    (Returned /\ IsFlat(Prices(priceHistory)))
        => /\ ReportedRSI(report) = Num(50)
           /\ report.volatility = "low"
           /\ report.indicators[4].value = Num(0)

\* C6, amended: on a flat series the volatility is low, the RSI is 100 when the series
\* has at least 15 points and 50 when it has 14, and the MACD histogram is minus four
\* fifths of the price.
C6_FlatSeriesOverboughtAndNegativeHistogram ==
    (Returned /\ IsFlat(Prices(priceHistory)))
        => /\ ReportedRSI(report) = (IF Len(priceHistory) >= 15 THEN Num(100) ELSE Num(50))
           /\ report.volatility = "low"
           /\ report.indicators[4].value = Neg(Mul(report.currentPrice, <<4, 5>>))

\* a report on a flat series of 15 or more points
C6_Witness ==
    /\ Returned
    /\ IsFlat(Prices(priceHistory))
    /\ Len(priceHistory) >= 15
    /\ Lt(report.indicators[4].value, Num(0))
StrictlyIncreasing(prices) == \A i \in 2..Len(prices) : Gt(prices[i], prices[i - 1])

\* a report on a series of 60 or more points, each above the one before
RisingReturned ==
    Returned /\ Len(priceHistory) >= 60 /\ StrictlyIncreasing(Prices(priceHistory))

\* the last price is more than 2% above the price seven points before it
WeekGainAboveTwoPercent(prices) ==
    Gt(Mul(Sub(prices[Len(prices)], prices[Len(prices) - 7]), Num(50)),
       prices[Len(prices) - 7])

\* C7 as stated: on a strictly increasing series of 60 or more points the RSI is at
\* least 70, SMA 20 and SMA 50 both signal buy, and the trend is bullish.
C7_RisingSeriesBullish ==
    RisingReturned
        => /\ Ge(ReportedRSI(report), Num(70))
           /\ report.indicators[2].signal = "buy"
           /\ report.indicators[3].signal = "buy"
           /\ report.trend = "bullish"

\* C7, amended: on a strictly increasing series of 60 or more points the RSI is 100,
\* SMA 20 and SMA 50 both signal buy, and the trend is bullish when the last price is
\* more than 2% above the price seven points earlier and sideways when it is not.
C7_RisingSeriesBullishAboveTwoPercent ==
    RisingReturned
        => /\ ReportedRSI(report) = Num(100)
           /\ report.indicators[2].signal = "buy"
           /\ report.indicators[3].signal = "buy"
           /\ report.trend = (IF WeekGainAboveTwoPercent(Prices(priceHistory))
                              THEN "bullish" ELSE "sideways")

\* a report on a rising series that gained more than 2% over its last seven points
C7_Witness == RisingReturned /\ report.trend = "bullish"

SeriesMean(prices) == Div(Sum(prices), Num(Len(prices)))

\* C8 as stated: a series of exactly 14 points is accepted, its RSI is the RSI formula
\* applied to the last deltas of the series, and SMA 20 and SMA 50 are the series mean.
C8_FourteenPointsRSIFromDeltas ==
    (Resolved /\ Len(priceHistory) = 14)
        => /\ pc = "done"
           /\ ReportedRSI(report) = RSIOfChanges(Changes(Prices(priceHistory)), 14)
           /\ report.indicators[2].value = SeriesMean(Prices(priceHistory))
           /\ report.indicators[3].value = SeriesMean(Prices(priceHistory))

\* C8, amended: a series of exactly 14 points is accepted, its RSI is the fallback 50
\* whatever its deltas are, and SMA 20 and SMA 50 are the series mean.
C8_FourteenPointsRSIFallback ==
    (Resolved /\ Len(priceHistory) = 14)
        => /\ pc = "done"
           /\ ReportedRSI(report) = Num(50)
           /\ report.indicators[2].value = SeriesMean(Prices(priceHistory))
           /\ report.indicators[3].value = SeriesMean(Prices(priceHistory))

\* a report on the 14 points 100, 102, ..., 126 with volume 1000 throughout
C8_Witness ==
    /\ Returned
    /\ Len(priceHistory) = 14
    /\ \A i \in 1..14 : /\ priceHistory[i].price = Num(100 + 2 * (i - 1))
                        /\ priceHistory[i].volume = Num(1000)

\* the score of a signal name
ScoreOfName == [n \in SignalNames |->
                  CASE n = "strong_buy" -> 2 [] n = "buy" -> 1 [] n = "neutral" -> 0
                    [] n = "sell" -> -1 [] n = "strong_sell" -> -2]

ScoreAt(r, i) == ScoreOfName[r.indicators[i].signal]

\* the sum of the five scores and the sum of their squares
ScoreTotal(r) == ScoreAt(r, 1) + ScoreAt(r, 2) + ScoreAt(r, 3) + ScoreAt(r, 4) + ScoreAt(r, 5)

ScoreSquares(r) ==
    ScoreAt(r, 1) * ScoreAt(r, 1) + ScoreAt(r, 2) * ScoreAt(r, 2)
        + ScoreAt(r, 3) * ScoreAt(r, 3) + ScoreAt(r, 4) * ScoreAt(r, 4)
        + ScoreAt(r, 5) * ScoreAt(r, 5)

\* the signal of a mean score m = total / 5: m >= 1.5 iff 2 * total >= 15, and so on
SignalOfTotal(total) ==
    IF 2 * total >= 15 THEN "strong_buy"
    ELSE IF 2 * total >= 5 THEN "buy"
    ELSE IF 2 * total <= -15 THEN "strong_sell"
    ELSE IF 2 * total <= -5 THEN "sell"
    ELSE "neutral"

\* orders of the five indicators: reversed, rotated, the first two exchanged
Reorderings == {<<5, 4, 3, 2, 1>>, <<2, 3, 4, 5, 1>>, <<2, 1, 3, 4, 5>>}

\* C9: the overall signal is decided by the mean of the five indicator scores alone,
\* with the thresholds 1.5, 0.5, -0.5 and -1.5, and is the same for the indicators
\* taken in another order.
C9_OverallSignalFromMeanScore ==
    Returned
        => /\ report.overallSignal = SignalOfTotal(ScoreTotal(report))
           /\ \A o \in Reorderings :
                 scoreToSignal(AvgScore(SignalScores([i \in 1..5 |-> report.indicators[o[i]]])))
                     = report.overallSignal

\* a report whose scores are not all equal and whose mean reaches the buy threshold
C9_Witness ==
    /\ Returned
    /\ report.overallSignal = "buy"
    /\ ScoreTotal(report) = 3
    /\ ScoreAt(report, 1) # ScoreAt(report, 2)

\* five times (100 - 20 * variance), the variance being (5 * squares - total^2) / 25
FiveTimesRawConfidence(r) == 500 - 4 * (5 * ScoreSquares(r) - ScoreTotal(r) * ScoreTotal(r))

\* x / 5 clamped to [0, 100] and rounded to the nearest integer
ClampedRoundedFifth(x) == (2 * Max(0, Min(500, x)) + 5) \div 10

AllSignalsEqual(r) == \A i \in 1..5 : r.indicators[i].signal = r.indicators[1].signal

\* C10: the confidence is 100 minus 20 times the population variance of the five
\* scores, clamped to [0,100] and rounded to the nearest integer; it is 100 exactly
\* when the five indicators carry the same signal.
C10_ConfidenceFromScoreVariance ==
    Returned
        => /\ report.confidence = Num(ClampedRoundedFifth(FiveTimesRawConfidence(report)))
           /\ (report.confidence = Num(100) <=> AllSignalsEqual(report))

\* a report whose five indicators all signal sell
C10_Witness == Returned /\ AllSignalsEqual(report) /\ report.confidence = Num(100)
\* the number of indicators of a report whose signal is one of names
SignalCount(r, names) ==
    Cardinality({i \in 1..Len(r.indicators) : r.indicators[i].signal \in names})

\* C11: the summary's bullish count is the number of indicators signalling buy or
\* strong_buy, its bearish count the number signalling sell or strong_sell, and its
\* total the number of indicators, which is 5; so bullish + bearish <= total.
C11_SummaryCountsIndicators ==
    Returned
        => /\ report.summary.bullish = SignalCount(report, {"buy", "strong_buy"})
           /\ report.summary.bearish = SignalCount(report, {"sell", "strong_sell"})
           /\ report.summary.total = Len(report.indicators)
           /\ report.summary.total = 5
           /\ report.summary.bullish + report.summary.bearish <= report.summary.total

\* a report with a strong signal, a plain one of the other side and a neutral one
C11_Witness ==
    /\ Returned
    /\ SignalCount(report, {"strong_sell"}) >= 1
    /\ SignalCount(report, {"buy"}) >= 1
    /\ SignalCount(report, {"neutral"}) >= 1
    /\ report.summary.bullish + report.summary.bearish < report.summary.total

\* C18 as stated: the confidence printed in the summary is the integer of the
\* confidence field.
C18_SummaryConfidenceIsField == Returned => report.summary.confidence = report.confidence
\* C13: the call leaves the fetched history as the upstream returned it, and the
\* arrays prices and volumes derived from it hold, when the call returns, the prices
\* and the volumes of the history in the order of the history.
C13_InputNotMutated ==
    /\ Resolved => priceHistory = upstream
    /\ Returned => /\ callPrices = [i \in 1..Len(upstream) |-> upstream[i].price]
                   /\ callVolumes = [i \in 1..Len(upstream) |-> upstream[i].volume]

\* a report on a series that is not in ascending order of price
C13_Witness ==
    /\ Returned
    /\ \E i \in 2..Len(callPrices) : Lt(callPrices[i], callPrices[i - 1])
    /\ Lt(report.supportLevel, report.resistanceLevel)

\* v is a price of ps that stands at index k (from 0) when ps is sorted ascending:
\* at most k prices are below it and more than k are not above it
AtSortedIndex(ps, k, v) ==
    /\ \E i \in 1..Len(ps) : ps[i] = v
    /\ Cardinality({i \in 1..Len(ps) : Lt(ps[i], v)}) <= k
    /\ Cardinality({i \in 1..Len(ps) : Le(ps[i], v)}) > k

\* C14: supportLevel is the price at index floor(0.1 * n) and resistanceLevel the
\* price at index floor(0.9 * n) of the n prices sorted ascending; both are prices
\* of the series.
C14_SupportResistanceAtPercentiles ==
    Returned
        => /\ AtSortedIndex(Prices(priceHistory), Len(priceHistory) \div 10,
                            report.supportLevel)
           /\ AtSortedIndex(Prices(priceHistory), (9 * Len(priceHistory)) \div 10,
                            report.resistanceLevel)

\* a report whose support is above the least price and whose resistance is below the
\* greatest, on a series that is not sorted
C14_Witness ==
    /\ Returned
    /\ \E i \in 1..Len(priceHistory) : Lt(priceHistory[i].price, report.supportLevel)
    /\ \E i \in 1..Len(priceHistory) : Gt(priceHistory[i].price, report.resistanceLevel)
    /\ \E i \in 2..Len(priceHistory) : Lt(priceHistory[i].price, priceHistory[i - 1].price)
VolumeStable == "Volume stable"

MomentumTexts == {"MACD histogram positive (bullish momentum)",
                  "MACD histogram negative (bearish momentum)"}

BelowTexts == {"Price below 20-day SMA (bearish)", "Price below 50-day SMA (bearish)"}

\* C19 as stated: signal and interpretation of an indicator agree: a Volume Trend
\* indicator signalling buy does not read 'Volume stable', a MACD indicator signalling
\* neutral carries no momentum text, and an SMA indicator signalling sell reads
\* 'below' only when the price is below the average.
C19_InterpretationAgreesWithSignal ==
    Returned
        => /\ report.indicators[5].signal = "buy"
                 => report.indicators[5].interpretation # VolumeStable
           /\ report.indicators[4].signal = "neutral"
                 => report.indicators[4].interpretation \notin MomentumTexts
           /\ \A i \in {2, 3} :
                 (report.indicators[i].signal = "sell"
                     /\ report.indicators[i].interpretation \in BelowTexts)
                 => Lt(report.currentPrice, report.indicators[i].value)

\* the three conditions of each side of the trend rule, on the prices of the history
\* and the two averages of the report
TrendUp(r, ps) ==
    /\ Gt(ps[Len(ps)], r.indicators[2].value)
    /\ Gt(r.indicators[2].value, r.indicators[3].value)
    /\ Gt(Mul(Sub(ps[Len(ps)], ps[Len(ps) - 7]), Num(50)), ps[Len(ps) - 7])

TrendDown(r, ps) ==
    /\ Lt(ps[Len(ps)], r.indicators[2].value)
    /\ Lt(r.indicators[2].value, r.indicators[3].value)
    /\ Lt(Mul(Sub(ps[Len(ps)], ps[Len(ps) - 7]), Num(50)), Neg(ps[Len(ps) - 7]))

\* C20: the trend is bullish exactly when the price is above SMA 20, SMA 20 above
\* SMA 50 and the price more than 2% above the price seven points earlier; bearish
\* exactly when all three hold the other way round; sideways otherwise; the two sides
\* never hold together.
C20_TrendConjunctive ==
    Returned
        => /\ report.trend = "bullish" <=> TrendUp(report, Prices(priceHistory))
           /\ report.trend = "bearish" <=> TrendDown(report, Prices(priceHistory))
           /\ report.trend = "sideways" <=> (~TrendUp(report, Prices(priceHistory))
                                             /\ ~TrendDown(report, Prices(priceHistory)))
           /\ ~(TrendUp(report, Prices(priceHistory))
                /\ TrendDown(report, Prices(priceHistory)))

\* a report with a bearish trend
C20_Witness == Returned /\ report.trend = "bearish"

(***************************************************************************)
(* Properties of the HTTP service, under HttpSpec.                         *)
(***************************************************************************)
\* the message fetchPriceHistory rethrows with
FetchFailed == "Failed to fetch price history"

\* the request has been answered
Responded == stage = "responded"

\* the request carries a non-empty Payment-Signature or X-Payment header
HasPayment(req) ==
    ~Falsy(req.headers["payment-signature"]) \/ ~Falsy(req.headers["x-payment"])

\* the paid routes whose handler Express dispatches the request to
PaidRoutesOf(req) ==
    { i \in 1..Len(paymentRoutes) : RouteMatches(paymentRoutes[i].path, req) }

\* the signals handler called the engine for the request, the call threw, and the
\* catch block answered
SignalsCallFailed ==
    /\ Responded
    /\ "signals" \in handled
    /\ "error" \in DOMAIN response.body
    /\ response.body.error = error

\* C12: a signals request whose history is shorter than 14 points and one whose
\* history fetch failed get two distinct failure outcomes: the first a client-facing
\* rejection (a 4xx status, not a server error), the second not a client-facing
\* rejection; neither response carries a report.
C12_DistinctFailureOutcomes ==
    SignalsCallFailed
        => /\ "data" \notin DOMAIN response.body
           /\ error = InsufficientHistory => response.status \in 400..499
           /\ error = FetchFailed => response.status \notin 400..499

\* C15: a paid handler runs only for a request that carries a non-empty
\* Payment-Signature or X-Payment header, and a GET request to a paid route without
\* one is answered 402 with the accepts list of that route.
C15_HandlerRunsOnlyWithPayment ==
    /\ handled # {} => HasPayment(request)
    /\ (Responded /\ PaidRoutesOf(request) # {} /\ ~HasPayment(request))
          => /\ response.status = 402
             /\ \E i \in PaidRoutesOf(request) :
                   response.body.accepts = Accepts(paymentRoutes[i])

\* C16: under the mainnet configuration a request that the payment middleware
\* matches to a paid route and that carries Payment-Signature: test reaches no
\* paid handler.
C16_TestSignatureOnlyOnTestnet ==
    (/\ isMainnet
     /\ stage \in {"route", "awaiting", "responded"}
     /\ request.method = "GET"
     /\ MatchingRoutes(request) # {}
     /\ request.headers["payment-signature"] = "test")
        => handled = {}

\* C17: a paid price request for a token the provider does not know is answered
\* 404 with success = false.
C17_UnknownTokenNotFound ==
    (/\ Responded
     /\ "price" \in handled
     /\ "error" \in DOMAIN response.body
     /\ response.body.error = "Token 'NOTREAL' not found on CoinGecko")
        => /\ response.status = 404
           /\ response.body.success = FALSE

(***************************************************************************)
(* Properties of the single indicators.                                    *)
(***************************************************************************)
\* the prices of the series the report was built from
HistoryPrices == Prices(priceHistory)

\* the MACD rule on histogram, macd and signal line
MacdSignalRule(histogram, macd, signal) ==
    IF Gt(histogram, Num(0)) /\ Gt(macd, signal)
    THEN (IF Gt(histogram, <<1, 100>>) THEN "strong_buy" ELSE "buy")
    ELSE IF Lt(histogram, Num(0)) /\ Lt(macd, signal)
    THEN (IF Lt(histogram, <<-1, 100>>) THEN "strong_sell" ELSE "sell")
    ELSE "neutral"

\* the 9-period EMA of all but the last 9 prices followed by macd
SignalLineOf(ps, macd) == calculateEMA(Append(SubSeq(ps, 1, Len(ps) - 9), macd), 9)

MacdAgrees(indicator, macd, signal) ==
    /\ indicator.value = Sub(macd, signal)
    /\ indicator.signal = MacdSignalRule(Sub(macd, signal), macd, signal)

\* C21: the MACD indicator of a report carries histogram = macd - signal, with
\* macd = EMA12 - EMA26 over all prices and signal the 9-period EMA of all but the
\* last 9 prices followed by macd, and its signal follows the rule: strong_buy or buy
\* by histogram > 0.01 when histogram > 0 and macd > signal, strong_sell or sell by
\* histogram < -0.01 when histogram < 0 and macd < signal, neutral otherwise.
C21_MacdSignalRule ==
    Returned
        => \E macd \in {Sub(calculateEMA(HistoryPrices, 12), calculateEMA(HistoryPrices, 26))} :
              MacdAgrees(report.indicators[4], macd, SignalLineOf(HistoryPrices, macd))

\* a report whose MACD signal is the weaker of the two sell signals
C21_Witness == Returned /\ report.indicators[4].signal = "sell"

\* the volumes of the series the report was built from
HistoryVolumes == VolumesOf(priceHistory)

\* the score of the claim on the two means
VolumeScoreOf(recent, previous) ==
    IF Gt(previous, Num(0)) THEN Div(Sub(recent, previous), previous) ELSE Num(0)

VolumeSignalRule(score) ==
    IF Gt(score, Num(0)) THEN "buy" ELSE IF Lt(score, <<-1, 10>>) THEN "sell" ELSE "neutral"

VolumeAgrees(indicator, score) ==
    indicator.value = score /\ indicator.signal = VolumeSignalRule(score)

AllZero(volumes) == \A i \in 1..Len(volumes) : volumes[i] = Num(0)

\* C22: the Volume Trend value of a report is (mean of the last 5 volumes - mean of
\* the 5 before them) / (mean of the 5 before them) when that mean is > 0 and 0
\* otherwise; its signal is buy above 0, sell below -0.1 and neutral otherwise; a
\* series whose volumes are all zero gives value 0 and signal neutral.
C22_VolumeTrendRule ==
    Returned
        => /\ VolumeAgrees(report.indicators[5],
                           VolumeScoreOf(MeanOf(SliceLast(HistoryVolumes, 5)),
                                         MeanOf(SubSeq(HistoryVolumes, Len(HistoryVolumes) - 9,
                                                       Len(HistoryVolumes) - 5))))
           /\ AllZero(HistoryVolumes)
                 => /\ report.indicators[5].value = Num(0)
                    /\ report.indicators[5].signal = "neutral"

\* a report on a series whose volumes are all zero
C22_Witness == Returned /\ AllZero(HistoryVolumes)

\* the range of RSI values that the claim gives to a signal
RsiRange(signal, rsi) ==
    CASE signal = "strong_buy"  -> Lt(rsi, Num(20))
      [] signal = "buy"         -> Ge(rsi, Num(20)) /\ Lt(rsi, Num(30))
      [] signal = "neutral"     -> Ge(rsi, Num(30)) /\ Le(rsi, Num(70))
      [] signal = "sell"        -> Gt(rsi, Num(70)) /\ Le(rsi, Num(80))
      [] signal = "strong_sell" -> Gt(rsi, Num(80))

\* C23: the RSI of a report lies in [0, 100], exactly one of the five ranges
\* (< 20 strong_buy, [20, 30) buy, [30, 70] neutral, (70, 80] sell, > 80 strong_sell)
\* holds of it, and the RSI indicator carries the signal of that range.
C23_RsiSignalPartition ==
    Returned
        => /\ Ge(report.indicators[1].value, Num(0))
           /\ Le(report.indicators[1].value, Num(100))
           /\ Cardinality({s \in SignalNames : RsiRange(s, report.indicators[1].value)}) = 1
           /\ RsiRange(report.indicators[1].signal, report.indicators[1].value)

\* a report whose RSI is exactly 20: the lower end of the buy range
C23_Witness ==
    Returned /\ report.indicators[1].value = Num(20) /\ report.indicators[1].signal = "buy"

\* the mean of the last Min(period, Len(ps)) prices
WindowMean(ps, period) ==
    Div(Sum(SubSeq(ps, Len(ps) - Min(period, Len(ps)) + 1, Len(ps))),
        Num(Min(period, Len(ps))))

SmaAgrees(indicator, mean, currentPrice) ==
    /\ indicator.value = mean
    /\ indicator.signal = "buy" <=> Gt(currentPrice, mean)
    /\ indicator.signal = "sell" <=> ~Gt(currentPrice, mean)
    /\ indicator.signal # "neutral"

\* C24: the SMA 20 and SMA 50 values of a report are the means of the last
\* min(20, length) and min(50, length) prices; each signal is buy exactly when the
\* last price is strictly greater than that mean, and sell otherwise, also when the
\* price equals the mean; neither is neutral.
C24_SmaBinary ==
    Returned
        => /\ SmaAgrees(report.indicators[2], WindowMean(HistoryPrices, 20),
                        HistoryPrices[Len(HistoryPrices)])
           /\ SmaAgrees(report.indicators[3], WindowMean(HistoryPrices, 50),
                        HistoryPrices[Len(HistoryPrices)])

\* a report on a series longer than both windows, and with the price equal to
\* both means, are both reached; the witness is the second
C24_Witness ==
    /\ Returned
    /\ report.currentPrice = report.indicators[2].value
    /\ report.indicators[2].signal = "sell"
    /\ report.indicators[3].signal = "sell"

(***************************************************************************)
(* Properties of the aggregation, under AggregationSpec.                   *)
(***************************************************************************)
\* C25: the overall signal of a report is buy, neutral or sell, never strong_buy or
\* strong_sell: the two SMA scores are -1 or 1 and the Volume Trend score is -1, 0
\* or 1, so the mean of the five scores lies strictly between -1.5 and 1.5.
C25_OverallNeverStrong ==
    Returned
        => /\ report.overallSignal \in {"buy", "neutral", "sell"}
           /\ ScoreAt(report, 2) \in {-1, 1}
           /\ ScoreAt(report, 3) \in {-1, 1}
           /\ ScoreAt(report, 5) \in {-1, 0, 1}
           /\ -15 < 2 * ScoreTotal(report)
           /\ 2 * ScoreTotal(report) < 15

\* a report with the greatest sum of scores there is, 7: its overall signal is buy
C25_Witness == Returned /\ ScoreTotal(report) = 7 /\ report.overallSignal = "buy"

\* 25 times the population variance of the five scores
VarianceTimes25(r) == 5 * ScoreSquares(r) - ScoreTotal(r) * ScoreTotal(r)

\* C26: the confidence of a report is at least 57 and the clamp to [0, 100] is not
\* active: the population variance of the five scores is at most 2.16, so 100 minus
\* 20 times it lies between 56.8 and 100.
C26_ConfidenceAtLeast57 ==
    Returned
        => /\ Ge(report.confidence, Num(57))
           /\ VarianceTimes25(report) <= 54
           /\ FiveTimesRawConfidence(report) \in 284..500

\* a report whose scores have the greatest variance there is, 2.16
C26_Witness == Returned /\ VarianceTimes25(report) = 54 /\ report.confidence = Num(57)

\* C28: when the overall signal is buy, more indicators signal buy or strong_buy
\* than sell or strong_sell; when it is sell, more signal sell or strong_sell than
\* buy or strong_buy; the counts are those of the summary.
C28_OverallAgreesWithCounts ==
    Returned
        => /\ report.summary.bullish = SignalCount(report, {"buy", "strong_buy"})
           /\ report.summary.bearish = SignalCount(report, {"sell", "strong_sell"})
           /\ report.overallSignal = "buy" => report.summary.bullish > report.summary.bearish
           /\ report.overallSignal = "sell" => report.summary.bearish > report.summary.bullish

\* a report with overall signal buy and only one more bullish than bearish indicator
C28_Witness ==
    /\ Returned
    /\ report.overallSignal = "buy"
    /\ report.summary.bullish = report.summary.bearish + 1

\* C27: on a series of 14 to 20 points SMA 20 and SMA 50 are the same value, the
\* mean of the whole series, the two SMA indicators carry the same signal, and the
\* trend is sideways.
C27_ShortSeriesSideways ==
    (Returned /\ Len(priceHistory) \in 14..20)
        => /\ report.indicators[2].value = SeriesMean(HistoryPrices)
           /\ report.indicators[3].value = SeriesMean(HistoryPrices)
           /\ report.indicators[2].signal = report.indicators[3].signal
           /\ report.trend = "sideways"

\* a report on a rising series of 20 points that gained more than 2% over its last
\* seven points, with the price above the average
C27_Witness ==
    /\ Returned
    /\ Len(priceHistory) = 20
    /\ WeekGainAboveTwoPercent(HistoryPrices)
    /\ Gt(report.currentPrice, report.indicators[2].value)
    /\ report.trend = "sideways"

(***************************************************************************)
(* Further properties of the HTTP service, under HttpSpec.                 *)
(***************************************************************************)
\* C29: on a paid route the payment check comes before parameter validation and
\* before any upstream call: a request to a paid route without a payment header is
\* answered 402 whatever its parameters, a 400 answer is given only to a request
\* that carried a payment header, and the history fetch of the signals handler is
\* awaited only for such a request.
C29_PaymentPrecedesValidation ==
    /\ (Responded /\ PaidRoutesOf(request) # {} /\ ~HasPayment(request))
          => response.status = 402
    /\ (Responded /\ response.status = 400) => HasPayment(request)
    /\ stage = "awaiting" => HasPayment(request)

\* the portfolio handler called analyzePortfolio for the request and has answered
PortfolioAnswered == Responded /\ "portfolio" \in handled /\ lookup # NoLookup

SortedByValueDescending(holdings) ==
    \A i \in 2..Len(holdings) : Ge(holdings[i - 1].valueUsd, holdings[i].valueUsd)

EmptyAnalysis(a) ==
    /\ a.holdings = <<>>
    /\ a.tokenCount = 0
    /\ a.totalValueUsd = Num(0)
    /\ a.topHolding = Null
    /\ a.stablecoinPercentage = Num(0)
    /\ a.nativeTokenPercentage = Num(0)
    /\ a.diversificationScore = Num(100)

RankedAnalysis(a) ==
    /\ SortedByValueDescending(a.holdings)
    /\ a.topHolding = a.holdings[1]
    /\ Ge(a.diversificationScore, Num(0))
    /\ Le(a.diversificationScore, Num(100))

====
